---- MODULE Spec2Model ----
(***************************************************************************)
(* Parts of pocketpal-ai       as state machines, each with its own        *)
(* specification: the hook useStorageCheck (Spec, SpecOneSession), the     *)
(* Input component (SpecInput), the result list of the benchmark screen    *)
(* (SpecBench) and BenchResultCard.formatDuration (SpecDuration).  A       *)
(* specification leaves the variables of the other parts as they start.    *)
(*                                                                         *)
(* The storage-availability monitor, the React hook useStorageCheck        *)
(* (src/hooks/useStorageCheck.ts):                                         *)
(*                                                                         *)
(* One hook instance is modelled.  Every run of the effect body is a       *)
(* session: it owns an AbortController, the closure checkStorage and an    *)
(* optional interval timer.  A check cycle is one call of checkStorage; it *)
(* suspends at `await hasEnoughSpace(model)` and at                        *)
(* `await DeviceInfo.getFreeDiskStorage('important')`, and each            *)
(* continuation is one action.  The oracles answer at any later moment, so *)
(* every latency relative to the timer period is covered.                  *)
(***************************************************************************)
EXTENDS Integers, FiniteSets, Sequences, TLC

(* ---------------------------- bounds ----------------------------------- *)
MaxSessions == 2     \* sessions (runs of the effect body) of the hook instance
MaxTicks == 1        \* how far the clock advances, in steps of TimeStep
MaxLongTicks == 4    \* the same, when one session is followed on its own
MaxTextLen == 2      \* characters of a text typed into the Input
MaxSends == 2        \* calls of onSendPress followed
MaxResults == 3      \* benchmark results in the store
MaxDurationMs == 125000  \* largest duration formatted, in ms

(* ------------------------ program constants ---------------------------- *)
DefaultCheckInterval == 10000
TimeStep == DefaultCheckInterval
MaxTime == MaxTicks * TimeStep
MaxLongTime == MaxLongTicks * TimeStep
Intervals == {DefaultCheckInterval, 2 * DefaultCheckInterval}

OriginLocal == "LOCAL"

\* The model descriptors the hook is rendered with.  Two objects are the
\* same dependency of the effect exactly when they are the same object (id).
Models ==
    { [id |-> "A", size |-> 5000000, isDownloaded |-> FALSE, isLocal |-> FALSE, origin |-> "HF"],
      [id |-> "B", size |-> 4000,    isDownloaded |-> FALSE, isLocal |-> FALSE, origin |-> "PRESET"],
      [id |-> "D", size |-> 5000000, isDownloaded |-> TRUE,  isLocal |-> FALSE, origin |-> "HF"],
      [id |-> "L", size |-> 4000,    isDownloaded |-> FALSE, isLocal |-> TRUE,  origin |-> "HF"],
      [id |-> "O", size |-> 4000,    isDownloaded |-> FALSE, isLocal |-> FALSE, origin |-> OriginLocal] }

\* Values getFreeDiskStorage may return.
FreeValues == {4000000, 999}

Sessions == 1..MaxSessions

VARIABLES
    phase,          \* "rendered" (first render, effect not yet run), "observing",
                    \* "pending" (rendered with changed dependencies, cleanup
                    \* and effect not yet run), "unmounted"
    props,          \* [model, enablePeriodicCheck, checkInterval] of the last render
    sessionId,      \* id of the session created last (0: none yet)
    aborted,        \* sessions whose abortController.signal.aborted is true
    timers,         \* live setInterval timers: [sess, model, interval, nextFire]
    inflight,       \* suspended calls of checkStorage: [sess, n, model, pc, freeCalls]
    started,        \* started[s]: calls of checkStorage made by session s
    sessionStart,   \* clock value when the current session was created
    enoughCalls,    \* enoughCalls[s]: calls of hasEnoughSpace made by session s
    storageStatus,  \* the useState value the hook returns
    lastDone,       \* how the call of checkStorage that returned last went
    now,            \* the clock, in ms
    \* ---- the Input component (src/components/Input/Input.tsx)
    sendButtonVisibilityMode,  \* the prop: "undefined", "always" or "editing"
    user,           \* whether UserContext provides a user
    valueProp,      \* textInputProps.value: NoValue or a text
    text,           \* the useState value tracking the typed text
    sent,           \* the messages onSendPress was called with, in order
    \* ---- the benchmark screen and its result cards
    results,        \* benchmarkStore.results
    dialog,         \* the confirmation dialog shown: "none", "delete", "clearAll"
    pendingDelete,  \* the timestamp the delete dialog is about (NoTimestamp: none)
    pressedCard,    \* the result whose delete button was pressed last
    removeResultCalls,  \* arguments of the calls of benchmarkStore.removeResult
    clearResultsCalls,  \* number of calls of benchmarkStore.clearResults
    \* ---- BenchResultCard.formatDuration
    ms,             \* the argument
    formatted       \* the string returned ("": not yet called)

hookVars == << phase, props, sessionId, aborted, timers, inflight, started,
               sessionStart, enoughCalls, storageStatus, lastDone, now >>

inputVars == << sendButtonVisibilityMode, user, valueProp, text, sent >>

benchVars == << results, dialog, pendingDelete, pressedCard, removeResultCalls,
               clearResultsCalls >>

durationVars == << ms, formatted >>

vars == << hookVars, inputVars, benchVars, durationVars >>

(* ----------------------------- statuses -------------------------------- *)
\* formatBytes of src/utils, after the specification's example
\* (5 000 000 000 -> "5 GB"): decimal units, whole numbers.
formatBytes(n) ==
    IF n < 1000 THEN ToString(n) \o " B"
    ELSE IF n < 1000000 THEN ToString(n \div 1000) \o " kB"
    ELSE IF n < 1000000000 THEN ToString(n \div 1000000) \o " MB"
    ELSE ToString(n \div 1000000000) \o " GB"

InitialStatus == [isOk |-> TRUE, message |-> ""]

OkStatus == [isOk |-> TRUE, message |-> ""]

StorageLowStatusSwapped(size, freeDisk) ==
    [isOk |-> FALSE,
     message |-> "Storage low! Model " \o formatBytes(freeDisk) \o " > "
                 \o formatBytes(size) \o " free"]

StorageLowStatus(size, freeDisk) ==
    [isOk |-> FALSE,
     message |-> "Storage low! Model " \o formatBytes(size) \o " > "
                 \o formatBytes(freeDisk) \o " free"]

FailedStatusOk == [isOk |-> TRUE, message |-> "Failed to check storage"]

FailedStatus == [isOk |-> FALSE, message |-> "Failed to check storage"]

\* lastDone before any call of checkStorage has returned.
NoCycle ==
    [stale |-> FALSE, answer |-> "none", outcome |-> "none", freeCalls |-> 0, free |-> -1]

(* --------------------------- checkStorage ------------------------------ *)
IsSkippedIgnoringLocal(m) == m.isDownloaded \/ m.origin = OriginLocal

\* The guard at the top of checkStorage.
IsSkipped(m) == m.isDownloaded \/ m.isLocal \/ m.origin = OriginLocal

AfterHasEnoughSpaceLateCheck(isAborted, isEnoughSpace) ==
    IF ~isEnoughSpace THEN "getFreeDiskStorage"
    ELSE IF isAborted THEN "return"
    ELSE "setOk"

\* What the continuation after `await hasEnoughSpace(model)` does.
AfterHasEnoughSpace(isAborted, isEnoughSpace) ==
    IF isAborted THEN "return"
    ELSE IF ~isEnoughSpace THEN "getFreeDiskStorage"
    ELSE "setOk"

AfterGetFreeDiskStorageUnchecked(isAborted) == "setLow"

\* What the continuation after `await getFreeDiskStorage(..)` does.
AfterGetFreeDiskStorage(isAborted) ==
    IF isAborted THEN "return" ELSE "setLow"

CatchHandlerRethrows(isAborted) == "throw"

\* What the catch block does.
CatchHandler(isAborted) ==
    IF ~isAborted THEN "setFailed" ELSE "return"

checkStorageOnce(s, m) ==
    LET n == started[s] + 1 IN
    /\ started' = [started EXCEPT ![s] = n]
    /\ IF IsSkipped(m) \/ n > 1
         THEN /\ inflight' = inflight
              /\ enoughCalls' = enoughCalls
              /\ lastDone' = [NoCycle EXCEPT !.answer = "skipped", !.outcome = "return"]
         ELSE /\ inflight' = inflight \cup
                     {[sess |-> s, n |-> n, model |-> m, pc |-> "hasEnoughSpace",
                       freeCalls |-> 0]}
              /\ enoughCalls' = [enoughCalls EXCEPT ![s] = @ + 1]
              /\ lastDone' = lastDone

\* The synchronous head of a call of checkStorage by session s: it returns
\* at once for a downloaded or local model, and else calls hasEnoughSpace
\* and suspends.
checkStorage(s, m) ==
    LET n == started[s] + 1 IN
    /\ started' = [started EXCEPT ![s] = n]
    /\ IF IsSkipped(m)
         THEN /\ inflight' = inflight
              /\ enoughCalls' = enoughCalls
              /\ lastDone' = [NoCycle EXCEPT !.answer = "skipped", !.outcome = "return"]
         ELSE /\ inflight' = inflight \cup
                     {[sess |-> s, n |-> n, model |-> m, pc |-> "hasEnoughSpace",
                       freeCalls |-> 0]}
              /\ enoughCalls' = [enoughCalls EXCEPT ![s] = @ + 1]
              /\ lastDone' = lastDone

\* The end of a call of checkStorage.
Finish(c, answer, outcome, free) ==
    /\ inflight' = inflight \ {c}
    /\ lastDone' = [stale |-> c.sess \in aborted, answer |-> answer, outcome |-> outcome,
                    freeCalls |-> c.freeCalls, free |-> free]
    /\ storageStatus' =
         CASE outcome = "setOk" -> OkStatus
           [] outcome = "setLow" -> StorageLowStatus(c.model.size, free)
           [] outcome = "setFailed" -> FailedStatus
           [] OTHER -> storageStatus

(* ------------------------------ effect --------------------------------- *)
setIntervalLateFirst(s, m, interval) ==
    [sess |-> s, model |-> m, interval |-> interval, nextFire |-> now + 2 * interval]

\* setInterval(checkStorage, checkInterval), called by session s at time now.
setInterval(s, m, interval) ==
    [sess |-> s, model |-> m, interval |-> interval, nextFire |-> now + interval]

intervalIdAlways(s, p) == {setInterval(s, p.model, p.checkInterval)}

\* The timers session s creates: one when periodic checking is enabled.
intervalId(s, p) ==
    IF p.enablePeriodicCheck
      THEN {setInterval(s, p.model, p.checkInterval)}
      ELSE {}

\* The body of the effect: a new AbortController, one call of checkStorage,
\* and the interval timer when periodic checking is enabled.
StartSession(p, liveTimers) ==
    LET s == sessionId + 1 IN
    /\ sessionId' = s
    /\ sessionStart' = now
    /\ checkStorage(s, p.model)
    /\ timers' = liveTimers \cup intervalId(s, p)

\* The cleanup the effect returns: abort, then clearInterval(intervalId).
CleanupAborted(s) == aborted \cup {s}

CleanupTimersKept(s) == timers

CleanupTimers(s) == {t \in timers : t.sess # s}

DepsChangedIgnoringInterval(p, q) ==
    \/ p.model.id # q.model.id
    \/ p.enablePeriodicCheck # q.enablePeriodicCheck

\* Whether the dependency array [model, enablePeriodicCheck, checkInterval]
\* differs between two renders.
DepsChanged(p, q) ==
    \/ p.model.id # q.model.id
    \/ p.enablePeriodicCheck # q.enablePeriodicCheck
    \/ p.checkInterval # q.checkInterval

ModelById(id) == CHOOSE m \in Models : m.id = id

MkProps(id, periodic, interval) ==
    [model |-> ModelById(id), enablePeriodicCheck |-> periodic, checkInterval |-> interval]

\* The renders considered: every dependency varies on its own, and each way
\* of being a model that needs no check occurs.
PropsSet ==
    { MkProps("A", TRUE, DefaultCheckInterval),
      MkProps("A", TRUE, 2 * DefaultCheckInterval),
      MkProps("A", FALSE, DefaultCheckInterval),
      MkProps("B", TRUE, DefaultCheckInterval),
      MkProps("D", TRUE, DefaultCheckInterval),
      MkProps("L", FALSE, DefaultCheckInterval),
      MkProps("O", TRUE, 2 * DefaultCheckInterval) }

(* ------------------------------ actions -------------------------------- *)
\* A text is a sequence of characters; an absent text prop is NoValue.
NoValue == << "undefined" >>

NoTimestamp == "none"

NoResult == [timestamp |-> NoTimestamp, modelName |-> ""]

\* The Input component is not rendered.
InputIdle ==
    /\ sendButtonVisibilityMode = "undefined"
    /\ user = FALSE
    /\ valueProp = NoValue
    /\ text = << >>
    /\ sent = << >>

\* The benchmark screen is not rendered.
BenchIdle ==
    /\ results = {}
    /\ dialog = "none"
    /\ pendingDelete = NoTimestamp
    /\ pressedCard = NoResult
    /\ removeResultCalls = << >>
    /\ clearResultsCalls = 0

\* formatDuration is not called.
DurationIdle ==
    /\ ms = 0
    /\ formatted = ""

Init ==
    /\ InputIdle
    /\ BenchIdle
    /\ DurationIdle
    /\ phase = "rendered"
    /\ props \in PropsSet
    /\ sessionId = 0
    /\ aborted = {}
    /\ timers = {}
    /\ inflight = {}
    /\ started = [s \in Sessions |-> 0]
    /\ sessionStart = 0
    /\ enoughCalls = [s \in Sessions |-> 0]
    /\ storageStatus = InitialStatus
    /\ lastDone = NoCycle
    /\ now = 0

\* The effect runs for the first time after the first render.
Mount ==
    /\ phase = "rendered"
    /\ phase' = "observing"
    /\ StartSession(props, timers)
    /\ UNCHANGED << props, aborted, storageStatus, now >>

\* The component renders again with props p: the hook body runs and returns.
\* When a dependency changed, React owes the cleanup of the current session
\* and a run of the effect body; they run later (EffectRerun), and until
\* then the callbacks of the current session can still run.
Rerender(p) ==
    /\ phase = "observing"
    /\ props' = p
    /\ IF DepsChanged(props, p)
         THEN sessionId < MaxSessions /\ phase' = "pending"
         ELSE phase' = phase
    /\ UNCHANGED << sessionId, aborted, timers, inflight, started,
                    sessionStart, enoughCalls, storageStatus, lastDone, now >>

\* React flushes the passive effects of the last render: the cleanup of the
\* current session, then the effect body with the rendered props.
EffectRerun ==
    /\ phase = "pending"
    /\ phase' = "observing"
    /\ aborted' = CleanupAborted(sessionId)
    /\ StartSession(props, CleanupTimers(sessionId))
    /\ UNCHANGED << props, storageStatus, now >>

\* The component unmounts: only the cleanup runs.
Unmount ==
    /\ phase = "observing"
    /\ phase' = "unmounted"
    /\ aborted' = CleanupAborted(sessionId)
    /\ timers' = CleanupTimers(sessionId)
    /\ UNCHANGED << props, sessionId, inflight, started, sessionStart,
                    enoughCalls, storageStatus, lastDone, now >>

\* A timer that is due calls checkStorage and is rescheduled.
TimerFire(t) ==
    /\ t \in timers
    /\ t.nextFire = now
    /\ timers' = (timers \ {t}) \cup {[t EXCEPT !.nextFire = now + t.interval]}
    /\ checkStorage(t.sess, t.model)
    /\ UNCHANGED << phase, props, sessionId, aborted, sessionStart,
                    storageStatus, now >>

\* Time passes, up to limit; timers that are due fire first.
Advance(limit) ==
    /\ now < limit
    /\ \A t \in timers : t.nextFire > now
    /\ now' = now + TimeStep
    /\ UNCHANGED << phase, props, sessionId, aborted, timers, inflight,
                    started, sessionStart, enoughCalls, storageStatus, lastDone >>

\* hasEnoughSpace answers r.
HasEnoughSpaceResolves(c, r) ==
    /\ c \in inflight
    /\ c.pc = "hasEnoughSpace"
    /\ LET next == AfterHasEnoughSpace(c.sess \in aborted, r) IN
         IF next = "getFreeDiskStorage"
           THEN /\ inflight' = (inflight \ {c}) \cup
                       {[c EXCEPT !.pc = "getFreeDiskStorage", !.freeCalls = @ + 1]}
                /\ UNCHANGED << storageStatus, lastDone >>
           ELSE Finish(c, IF r THEN "enough" ELSE "notEnough", next, -1)
    /\ UNCHANGED << phase, props, sessionId, aborted, timers, started,
                    sessionStart, enoughCalls, now >>

\* hasEnoughSpace fails.
HasEnoughSpaceRejects(c) ==
    /\ c \in inflight
    /\ c.pc = "hasEnoughSpace"
    /\ Finish(c, "hasEnoughSpaceFailed", CatchHandler(c.sess \in aborted), -1)
    /\ UNCHANGED << phase, props, sessionId, aborted, timers, started,
                    sessionStart, enoughCalls, now >>

\* getFreeDiskStorage answers freeDisk.
GetFreeDiskStorageResolves(c, freeDisk) ==
    /\ c \in inflight
    /\ c.pc = "getFreeDiskStorage"
    /\ Finish(c, "notEnough", AfterGetFreeDiskStorage(c.sess \in aborted), freeDisk)
    /\ UNCHANGED << phase, props, sessionId, aborted, timers, started,
                    sessionStart, enoughCalls, now >>

\* getFreeDiskStorage fails.
GetFreeDiskStorageRejects(c) ==
    /\ c \in inflight
    /\ c.pc = "getFreeDiskStorage"
    /\ Finish(c, "getFreeDiskStorageFailed", CatchHandler(c.sess \in aborted), -1)
    /\ UNCHANGED << phase, props, sessionId, aborted, timers, started,
                    sessionStart, enoughCalls, now >>

Tick == Advance(MaxTime)

TickLong == Advance(MaxLongTime)

Next ==
    \/ Mount /\ UNCHANGED << inputVars, benchVars, durationVars >>
    \/ \E p \in PropsSet : Rerender(p) /\ UNCHANGED << inputVars, benchVars, durationVars >>
    \/ EffectRerun /\ UNCHANGED << inputVars, benchVars, durationVars >>
    \/ Unmount /\ UNCHANGED << inputVars, benchVars, durationVars >>
    \/ \E t \in timers : TimerFire(t) /\ UNCHANGED << inputVars, benchVars, durationVars >>
    \/ Tick /\ UNCHANGED << inputVars, benchVars, durationVars >>
    \/ \E c \in inflight : \E r \in BOOLEAN :
          HasEnoughSpaceResolves(c, r) /\ UNCHANGED << inputVars, benchVars, durationVars >>
    \/ \E c \in inflight : HasEnoughSpaceRejects(c) /\ UNCHANGED << inputVars, benchVars, durationVars >>
    \/ \E c \in inflight : \E f \in FreeValues :
          GetFreeDiskStorageResolves(c, f) /\ UNCHANGED << inputVars, benchVars, durationVars >>
    \/ \E c \in inflight : GetFreeDiskStorageRejects(c) /\ UNCHANGED << inputVars, benchVars, durationVars >>

Spec == Init /\ [][Next]_vars

\* One session on its own: the hook is mounted, never re-rendered with other
\* dependencies, and possibly unmounted; the clock runs longer.
NextOneSession ==
    \/ Mount /\ UNCHANGED << inputVars, benchVars, durationVars >>
    \/ Unmount /\ UNCHANGED << inputVars, benchVars, durationVars >>
    \/ \E t \in timers : TimerFire(t) /\ UNCHANGED << inputVars, benchVars, durationVars >>
    \/ TickLong /\ UNCHANGED << inputVars, benchVars, durationVars >>
    \/ \E c \in inflight : \E r \in BOOLEAN :
          HasEnoughSpaceResolves(c, r) /\ UNCHANGED << inputVars, benchVars, durationVars >>
    \/ \E c \in inflight : HasEnoughSpaceRejects(c) /\ UNCHANGED << inputVars, benchVars, durationVars >>
    \/ \E c \in inflight : \E f \in FreeValues :
          GetFreeDiskStorageResolves(c, f) /\ UNCHANGED << inputVars, benchVars, durationVars >>
    \/ \E c \in inflight : GetFreeDiskStorageRejects(c) /\ UNCHANGED << inputVars, benchVars, durationVars >>

SpecOneSession == Init /\ [][NextOneSession]_vars

TypeOK ==
    /\ phase \in {"rendered", "observing", "pending", "unmounted"}
    /\ props \in PropsSet
    /\ sessionId \in 0..MaxSessions
    /\ aborted \subseteq Sessions
    /\ storageStatus.isOk \in BOOLEAN

(***************************************************************************)
(* The Input component (src/components/Input/Input.tsx).                   *)
(***************************************************************************)
Chars == {" ", "a"}

Texts == UNION {[1..n -> Chars] : n \in 0..MaxTextLen}

IsWhitespace(ch) == ch = " "

RECURSIVE trimStart(_)
trimStart(t) ==
    IF t # << >> /\ IsWhitespace(Head(t)) THEN trimStart(Tail(t)) ELSE t

RECURSIVE trimEnd(_)
trimEnd(t) ==
    IF t # << >> /\ IsWhitespace(t[Len(t)])
      THEN trimEnd(SubSeq(t, 1, Len(t) - 1))
      ELSE t

\* String.prototype.trim.
trim(t) == trimEnd(trimStart(t))

\* const value = textInputProps?.value ?? text
value == IF valueProp # NoValue THEN valueProp ELSE text

\* Whether the SendButton is rendered.
SendButtonVisible ==
    \/ sendButtonVisibilityMode = "always"
    \/ sendButtonVisibilityMode = "editing" /\ user /\ trim(value) # << >>

handleSendUnguarded ==
    /\ sent' = Append(sent, [text |-> trim(value), type |-> "text"])
    /\ text' = << >>

handleSend ==
    LET trimmedValue == trim(value) IN
    IF trimmedValue # << >>
      THEN /\ sent' = Append(sent, [text |-> trimmedValue, type |-> "text"])
           /\ text' = << >>
      ELSE UNCHANGED << sent, text >>

\* The hook is not mounted.
HookIdle ==
    /\ phase = "rendered"
    /\ props = MkProps("A", TRUE, DefaultCheckInterval)
    /\ sessionId = 0
    /\ aborted = {}
    /\ timers = {}
    /\ inflight = {}
    /\ started = [s \in Sessions |-> 0]
    /\ sessionStart = 0
    /\ enoughCalls = [s \in Sessions |-> 0]
    /\ storageStatus = InitialStatus
    /\ lastDone = NoCycle
    /\ now = 0

\* The component as first rendered: text starts as defaultValue ?? ''.
InitInput ==
    /\ HookIdle
    /\ BenchIdle
    /\ DurationIdle
    /\ sendButtonVisibilityMode \in {"undefined", "always", "editing"}
    /\ user \in BOOLEAN
    /\ valueProp \in {NoValue} \cup Texts
    /\ \E defaultValue \in {NoValue} \cup Texts :
          text = IF defaultValue # NoValue THEN defaultValue ELSE << >>
    /\ sent = << >>

\* The user edits the text: handleChangeText.
ChangeText(newText) ==
    /\ text' = newText
    /\ UNCHANGED << sendButtonVisibilityMode, user, valueProp, sent >>

\* The parent renders the component with another textInputProps.value.
SetValueProp(v) ==
    /\ valueProp' = v
    /\ UNCHANGED << sendButtonVisibilityMode, user, text, sent >>

\* The SendButton, when rendered, is pressed.
PressSend ==
    /\ SendButtonVisible
    /\ Len(sent) < MaxSends
    /\ handleSend
    /\ UNCHANGED << sendButtonVisibilityMode, user, valueProp >>

NextInput ==
    \/ \E t \in Texts : ChangeText(t) /\ UNCHANGED << hookVars, benchVars, durationVars >>
    \/ \E v \in {NoValue} \cup Texts :
          SetValueProp(v) /\ UNCHANGED << hookVars, benchVars, durationVars >>
    \/ PressSend /\ UNCHANGED << hookVars, benchVars, durationVars >>

SpecInput == InitInput /\ [][NextInput]_vars

(***************************************************************************)
(* The result list of the benchmark screen: the delete button of           *)
(* BenchResultCard (src/screens/BenchmarkScreen/BenchResultCard) and the   *)
(* confirmation dialogs of the screen, which the screen's tests describe   *)
(* (src/screens/BenchmarkScreen/__tests__/BenchmarkScreen.test.tsx).       *)
(***************************************************************************)
AllResults ==
    {[timestamp |-> ToString(i), modelName |-> "model" \o ToString(i)] :
        i \in 1..MaxResults}

onDeleteArgumentModelName(r) == r.modelName

\* What the card's delete button passes to onDelete.
onDeleteArgument(r) == r.timestamp

\* The screen's onDelete: it asks for confirmation.
onDelete(timestamp) ==
    /\ pendingDelete' = timestamp
    /\ dialog' = "delete"
    /\ UNCHANGED << results, removeResultCalls, clearResultsCalls >>

\* benchmarkStore.removeResult.
removeResult(timestamp) ==
    /\ removeResultCalls' = Append(removeResultCalls, timestamp)
    /\ results' = {r \in results : r.timestamp # timestamp}

clearResultsKeeps ==
    /\ clearResultsCalls' = clearResultsCalls + 1
    /\ results' = results

\* benchmarkStore.clearResults.
clearResults ==
    /\ clearResultsCalls' = clearResultsCalls + 1
    /\ results' = {}

\* The screen as first rendered, with the results the store holds.
InitBench ==
    /\ HookIdle
    /\ InputIdle
    /\ DurationIdle
    /\ results \in SUBSET AllResults
    /\ dialog = "none"
    /\ pendingDelete = NoTimestamp
    /\ pressedCard = NoResult
    /\ removeResultCalls = << >>
    /\ clearResultsCalls = 0

\* The delete button of the card of result r is pressed.
DeleteButtonPress(r) ==
    /\ r \in results
    /\ dialog = "none"
    /\ pressedCard' = r
    /\ onDelete(onDeleteArgument(r))

\* 'Delete' is pressed in the dialog.
ConfirmDelete ==
    /\ dialog = "delete"
    /\ removeResult(pendingDelete)
    /\ dialog' = "none"
    /\ pendingDelete' = NoTimestamp
    /\ UNCHANGED << pressedCard, clearResultsCalls >>

\* 'Cancel' is pressed in the dialog.
CancelDelete ==
    /\ dialog = "delete"
    /\ dialog' = "none"
    /\ pendingDelete' = NoTimestamp
    /\ UNCHANGED << results, pressedCard, removeResultCalls, clearResultsCalls >>

\* The clear-all button, shown with the results, is pressed.
ClearAllPress ==
    /\ results # {}
    /\ dialog = "none"
    /\ dialog' = "clearAll"
    /\ UNCHANGED << results, pendingDelete, pressedCard, removeResultCalls,
                    clearResultsCalls >>

\* clear-all-dialog-confirm-button is pressed.
ConfirmClearAll ==
    /\ dialog = "clearAll"
    /\ clearResults
    /\ dialog' = "none"
    /\ UNCHANGED << pendingDelete, pressedCard, removeResultCalls >>

\* clear-all-dialog-cancel-button is pressed.
CancelClearAll ==
    /\ dialog = "clearAll"
    /\ dialog' = "none"
    /\ UNCHANGED << results, pendingDelete, pressedCard, removeResultCalls,
                    clearResultsCalls >>

NextBench ==
    \/ \E r \in AllResults :
          DeleteButtonPress(r) /\ UNCHANGED << hookVars, inputVars, durationVars >>
    \/ ConfirmDelete /\ UNCHANGED << hookVars, inputVars, durationVars >>
    \/ CancelDelete /\ UNCHANGED << hookVars, inputVars, durationVars >>
    \/ ClearAllPress /\ UNCHANGED << hookVars, inputVars, durationVars >>
    \/ ConfirmClearAll /\ UNCHANGED << hookVars, inputVars, durationVars >>
    \/ CancelClearAll /\ UNCHANGED << hookVars, inputVars, durationVars >>

SpecBench == InitBench /\ [][NextBench]_vars

(***************************************************************************)
(* formatDuration of BenchResultCard, applied to every duration up to      *)
(* MaxDurationMs.                                                          *)
(***************************************************************************)
formatDurationLateSeconds(d) ==
    IF d <= 1000
    THEN ToString(d) \o "ms"
    ELSE LET seconds == d \div 1000
             minutes == seconds \div 60
         IN  IF minutes > 0
             THEN ToString(minutes) \o "m " \o ToString(seconds % 60) \o "s"
             ELSE ToString(seconds) \o "s"

formatDuration(d) ==
    IF d < 1000
    THEN ToString(d) \o "ms"
    ELSE LET seconds == d \div 1000
             minutes == seconds \div 60
         IN  IF minutes > 0
             THEN ToString(minutes) \o "m " \o ToString(seconds % 60) \o "s"
             ELSE ToString(seconds) \o "s"

InitDuration ==
    /\ HookIdle
    /\ InputIdle
    /\ BenchIdle
    /\ ms \in 0..MaxDurationMs
    /\ formatted = ""

\* The card renders the duration.
FormatDuration ==
    /\ formatted = ""
    /\ formatted' = formatDuration(ms)
    /\ UNCHANGED ms

NextDuration ==
    FormatDuration /\ UNCHANGED << hookVars, inputVars, benchVars >>

SpecDuration == InitDuration /\ [][NextDuration]_vars

(* ------------------------- vocabulary of the claims -------------------- *)
\* The call c of checkStorage returns in this step.
Finishes(c) ==
    /\ c \in inflight
    /\ \A d \in inflight' : ~(d.sess = c.sess /\ d.n = c.n)

\* The call of checkStorage that returned last called setStorageStatus.
Wrote(d) == d.outcome \in {"setOk", "setLow", "setFailed"}

CyclesOf(s) == {c \in inflight : c.sess = s}

\* No timer is due: every callback the clock owes has run.
TimersSettled == \A t \in timers : t.nextFire > now

Elapsed == now - sessionStart

(* ------------------------------- C1 ------------------------------------ *)
\* C1: once a session is torn down it stays torn down, it holds no timer and
\* starts no check, and a call of checkStorage of that session that was
\* suspended at teardown leaves storageStatus as it is when its await
\* resolves or rejects: it returns without calling setStorageStatus.
NoLateWrites ==
    [][ /\ aborted \subseteq aborted'
        /\ \A s \in aborted : started'[s] = started[s]
        /\ \A t \in timers' : t.sess \notin aborted'
        /\ \A c \in inflight :
             (c.sess \in aborted /\ c \notin inflight') =>
                 /\ storageStatus' = storageStatus
                 /\ Finishes(c) => lastDone'.outcome = "return" ]_vars

\* A check that was waiting on getFreeDiskStorage at teardown has returned.
LateCompletionSeen ==
    /\ lastDone.stale
    /\ lastDone.freeCalls = 1
    /\ lastDone.answer \in {"notEnough", "getFreeDiskStorageFailed"}

(* ------------------------------- C2 ------------------------------------ *)
\* C2: every session has at most one call of checkStorage in flight.
AtMostOneInFlight ==
    \A s \in Sessions : Cardinality(CyclesOf(s)) <= 1

(* ------------------------------- C3 ------------------------------------ *)
\* C3: every earlier session is aborted in the step that creates a session,
\* before that session's first check; and once the hook is rendered with a
\* model, only calls of checkStorage made for that model call
\* setStorageStatus: the result of a pending check of the former model is
\* never published.
OnlyCurrentModelPublishes ==
    [][ /\ sessionId' # sessionId =>
               /\ \A s \in 1..sessionId : s \in aborted'
               /\ \A c \in inflight' \ inflight :
                      c.sess = sessionId' /\ c.model = props'.model
        /\ \A c \in inflight :
             (Finishes(c) /\ Wrote(lastDone')) => c.model = props.model ]_vars

(* ------------------------------- C4 ------------------------------------ *)
\* C4: while the hook observes a downloaded or local model, hasEnoughSpace
\* is never called and storageStatus is the initial {isOk: true, message: ""}.
LocalModelStatusInitial ==
    (phase = "observing" /\ IsSkipped(props.model)) =>
        /\ enoughCalls[sessionId] = 0
        /\ storageStatus = [isOk |-> TRUE, message |-> ""]

(* ------------------------------- C5 ------------------------------------ *)
\* C5: a call of checkStorage of a live session that calls setStorageStatus
\* is the most recently started one among those of its session that have
\* returned: every call started after it is still in flight.
LatestCheckWins ==
    [][ \A c \in inflight :
          (Finishes(c) /\ c.sess \notin aborted /\ Wrote(lastDone')) =>
              \A n \in (c.n + 1)..started[c.sess] :
                  \E d \in inflight : d.sess = c.sess /\ d.n = n ]_vars

(* ------------------------------- C6 ------------------------------------ *)
\* C6: with enablePeriodicCheck = false the session has made exactly one
\* call of checkStorage and no timer exists, whatever the clock shows.
OneCheckWithoutPeriodic ==
    (phase # "rendered" /\ ~props.enablePeriodicCheck) =>
        /\ started[sessionId] = 1
        /\ timers = {}

\* Several periods have passed in a session without periodic checking.
WaitedWithoutPeriodic ==
    /\ phase = "observing"
    /\ ~props.enablePeriodicCheck
    /\ ~IsSkipped(props.model)
    /\ Elapsed >= 3 * props.checkInterval
    /\ started[sessionId] = 1

(* ------------------------------- C7 ------------------------------------ *)
\* C7, as stated: with enablePeriodicCheck = true and checkInterval = 10000,
\* once N x 10000 ms have elapsed (N >= 1) and the due callbacks have run,
\* exactly N calls of checkStorage have been made.
ExactlyNChecksAfterNIntervals ==
    ( /\ phase = "observing"
      /\ props.enablePeriodicCheck
      /\ props.checkInterval = DefaultCheckInterval
      /\ TimersSettled
      /\ Elapsed >= DefaultCheckInterval
      /\ Elapsed % DefaultCheckInterval = 0 ) =>
        started[sessionId] = Elapsed \div DefaultCheckInterval

\* C7, amended: under the same conditions, for N >= 0, exactly N + 1 calls
\* of checkStorage have been made: the one at session start and one for
\* each of the N timer fires.
NPlusOneChecksAfterNIntervals ==
    ( /\ phase = "observing"
      /\ props.enablePeriodicCheck
      /\ props.checkInterval = DefaultCheckInterval
      /\ TimersSettled
      /\ Elapsed % DefaultCheckInterval = 0 ) =>
        started[sessionId] = (Elapsed \div DefaultCheckInterval) + 1

\* Two periods of 10000 ms have passed and the timer has fired twice.
TwoIntervalsElapsed ==
    /\ phase = "observing"
    /\ props.enablePeriodicCheck
    /\ props.checkInterval = DefaultCheckInterval
    /\ TimersSettled
    /\ Elapsed = 2 * DefaultCheckInterval
    /\ started[sessionId] = 3

(* ------------------------------- C8 ------------------------------------ *)
\* C8: when hasEnoughSpace or getFreeDiskStorage fails in a session that is
\* not aborted, the call of checkStorage ends by setting storageStatus to
\* {isOk: false, message: "Failed to check storage"}; and no call of
\* checkStorage ever ends by throwing.
FailureAbsorbed ==
    /\ lastDone.outcome \in {"none", "return", "setOk", "setLow", "setFailed"}
    /\ ( /\ lastDone.answer \in {"hasEnoughSpaceFailed", "getFreeDiskStorageFailed"}
         /\ ~lastDone.stale ) =>
           /\ lastDone.outcome = "setFailed"
           /\ storageStatus = [isOk |-> FALSE, message |-> "Failed to check storage"]

\* getFreeDiskStorage failed in a live session.
FreeDiskFailureSeen ==
    /\ lastDone.answer = "getFreeDiskStorageFailed"
    /\ ~lastDone.stale
    /\ storageStatus.message = "Failed to check storage"

(* ------------------------------- C9 ------------------------------------ *)
\* C9: a call of checkStorage of a live session for a model that needs the
\* check ends, when hasEnoughSpace answered true, with storageStatus
\* {isOk: true, message: ""} and without a call of getFreeDiskStorage; when
\* it answered false, after one call of getFreeDiskStorage, with isOk false
\* and the message built from the size of its model and the value that call
\* returned.
CheckOutcome ==
    [][ \A c \in inflight :
          (Finishes(c) /\ ~lastDone'.stale) =>
              /\ lastDone'.answer = "enough" =>
                     /\ c.freeCalls = 0
                     /\ storageStatus' = [isOk |-> TRUE, message |-> ""]
              /\ lastDone'.answer = "notEnough" =>
                     /\ c.pc = "getFreeDiskStorage"
                     /\ c.freeCalls = 1
                     /\ lastDone'.free \in FreeValues
                     /\ storageStatus' =
                          [isOk |-> FALSE,
                           message |-> "Storage low! Model "
                                       \o formatBytes(c.model.size) \o " > "
                                       \o formatBytes(lastDone'.free) \o " free"] ]_vars

\* Model A of 5 000 000 bytes was found too large for 4 000 000 free bytes.
StorageLowSeen ==
    /\ lastDone.answer = "notEnough"
    /\ ~lastDone.stale
    /\ lastDone.freeCalls = 1
    /\ lastDone.free = 4000000
    /\ storageStatus = [isOk |-> FALSE,
                        message |-> "Storage low! Model 5 MB > 4 MB free"]

(* ------------------------------- C10 ----------------------------------- *)
\* C10: a render that changes model, enablePeriodicCheck or checkInterval
\* makes a restart due, and the only way on from there is the restart: it
\* aborts the current session and clears its timer, and creates a session
\* that has made one call of checkStorage for the new model and holds a
\* timer of the new interval exactly when periodic checking is enabled; a
\* render that changes none of the three makes no restart due, and no
\* session is created unless a restart (or the first effect run) is due.
RestartOnDependencyChange ==
    [][ /\ phase = "observing" =>
             /\ sessionId' = sessionId
             /\ phase' = "pending" <=>
                   \/ props'.model.id # props.model.id
                   \/ props'.enablePeriodicCheck # props.enablePeriodicCheck
                   \/ props'.checkInterval # props.checkInterval
        /\ phase = "pending" => phase' \in {"pending", "observing"}
        /\ (phase = "pending" /\ phase' = "observing") =>
             /\ props' = props
             /\ sessionId' = sessionId + 1
             /\ sessionId \in aborted'
             /\ sessionId' \notin aborted'
             /\ \A t \in timers' : t.sess = sessionId'
             /\ started'[sessionId'] = 1
             /\ sessionStart' = now
             /\ IF IsSkipped(props.model)
                  THEN {c \in inflight' : c.sess = sessionId'} = {}
                  ELSE {c \in inflight' : c.sess = sessionId'} =
                         {[sess |-> sessionId', n |-> 1, model |-> props.model,
                           pc |-> "hasEnoughSpace", freeCalls |-> 0]}
             /\ timers' =
                  IF props.enablePeriodicCheck
                    THEN {[sess |-> sessionId', model |-> props.model,
                           interval |-> props.checkInterval,
                           nextFire |-> now + props.checkInterval]}
                    ELSE {}
        /\ sessionId' # sessionId => phase \in {"rendered", "pending"} ]_vars

\* A change of checkInterval alone has started a second session whose timer
\* runs with the new interval.
RestartedWithNewInterval ==
    /\ phase = "observing"
    /\ sessionId = 2
    /\ 1 \in aborted
    /\ props.checkInterval = 2 * DefaultCheckInterval
    /\ \E t \in timers : t.sess = 2 /\ t.interval = 2 * DefaultCheckInterval
    /\ \E c \in inflight : c.sess = 1 /\ c.model.id = "A"
    /\ \E c \in inflight : c.sess = 2 /\ c.model.id = "A"

(* ------------------------------- C11 ----------------------------------- *)
\* C11: calls of checkStorage are made at session start and by timer fires
\* only; a call that published "Failed to check storage" starts no call and
\* leaves the timer alone; every fire of the timer of a live session starts
\* a call (an oracle call for a model that needs the check) and reschedules
\* the timer; and when the oracles of a call answer while the failure is
\* published, the status is replaced by the result of that call.
RetriedByTimerOnly ==
    [][ /\ \A s \in Sessions :
             started'[s] # started[s] =>
                 /\ started'[s] = started[s] + 1
                 /\ \/ sessionId' = s /\ sessionId' # sessionId
                    \/ \E t \in timers :
                          t.sess = s /\ t.nextFire = now /\ t \notin timers'
        /\ \A t \in timers :
             (t \notin timers' /\ t.sess \notin aborted') =>
                 /\ started'[t.sess] = started[t.sess] + 1
                 /\ [t EXCEPT !.nextFire = now + t.interval] \in timers'
                 /\ (~t.model.isDownloaded /\ ~t.model.isLocal
                       /\ t.model.origin # "LOCAL") =>
                        [sess |-> t.sess, n |-> started[t.sess] + 1, model |-> t.model,
                         pc |-> "hasEnoughSpace", freeCalls |-> 0] \in inflight'
        /\ \A c \in inflight :
             (Finishes(c) /\ lastDone'.outcome = "setFailed") =>
                 /\ started' = started
                 /\ enoughCalls' = enoughCalls
                 /\ timers' = timers
                 /\ inflight' = inflight \ {c}
        /\ \A c \in inflight :
             ( /\ Finishes(c)
               /\ ~lastDone'.stale
               /\ storageStatus.message = "Failed to check storage" ) =>
                 /\ lastDone'.answer = "enough" =>
                        storageStatus' = [isOk |-> TRUE, message |-> ""]
                 /\ (lastDone'.answer = "notEnough") =>
                        /\ ~storageStatus'.isOk
                        /\ storageStatus'.message # "Failed to check storage" ]_vars

\* The failure is published and the check the timer started is in flight.
RetryInFlightAfterFailure ==
    /\ phase = "observing"
    /\ storageStatus.message = "Failed to check storage"
    /\ lastDone.outcome = "setFailed"
    /\ started[sessionId] = 2
    /\ inflight = {[sess |-> sessionId, n |-> 2, model |-> props.model,
                    pc |-> "hasEnoughSpace", freeCalls |-> 0]}

(* ------------------------------- C15 ----------------------------------- *)
\* C15: a call of checkStorage for a model that is downloaded, local or of
\* LOCAL origin leaves storageStatus as it was and calls neither oracle: no
\* call of hasEnoughSpace is counted and no call is suspended or resumed.
SkippedCheckIsNoOp ==
    [][ /\ ( /\ sessionId' # sessionId
              /\ \/ props'.model.isDownloaded
                 \/ props'.model.isLocal
                 \/ props'.model.origin = "LOCAL" ) =>
               /\ started'[sessionId'] = 1
               /\ storageStatus' = storageStatus
               /\ enoughCalls' = enoughCalls
               /\ inflight' = inflight
        /\ \A t \in timers :
             ( /\ started'[t.sess] > started[t.sess]
               /\ sessionId' = sessionId
               /\ \/ t.model.isDownloaded
                  \/ t.model.isLocal
                  \/ t.model.origin = "LOCAL" ) =>
               /\ storageStatus' = storageStatus
               /\ enoughCalls' = enoughCalls
               /\ inflight' = inflight ]_vars

\* The timer of a session for a model that needs no check has fired while
\* the status of an earlier model, not the initial one, is published.
SkippedCheckKeptStatus ==
    /\ phase = "observing"
    /\ props.model.isDownloaded \/ props.model.isLocal \/ props.model.origin = "LOCAL"
    /\ started[sessionId] = 2
    /\ ~storageStatus.isOk

(* ------------------------------- C16 ----------------------------------- *)
\* C16: at most one timer is live in the hook instance, and it belongs to
\* the current session, which is not aborted: a session's timer is gone in
\* every state in which its token is aborted.
AtMostOneTimer ==
    /\ Cardinality(timers) <= 1
    /\ \A t \in timers : t.sess = sessionId /\ t.sess \notin aborted

\* The first session's timer had fired; the only timer now is the second's.
TimerReplaced ==
    /\ sessionId = 2
    /\ \E c \in inflight : c.sess = 1 /\ c.n = 2
    /\ \E t \in timers : t.sess = 2
    /\ Cardinality(timers) = 1

(* ------------------------------- C18 ----------------------------------- *)
\* C18: storageStatus is always {isOk: true, message: ""}, or isOk false
\* with a "Storage low! ..." message, or isOk false with "Failed to check
\* storage"; isOk is true exactly when the message is empty.
StatusShapes ==
    /\ \/ storageStatus = [isOk |-> TRUE, message |-> ""]
       \/ storageStatus = [isOk |-> FALSE, message |-> "Failed to check storage"]
       \/ \E m \in Models : \E f \in FreeValues :
             storageStatus =
                [isOk |-> FALSE,
                 message |-> "Storage low! Model " \o formatBytes(m.size) \o " > "
                             \o formatBytes(f) \o " free"]
    /\ storageStatus.isOk <=> storageStatus.message = ""

\* A "Storage low!" status is published.
StorageLowShapeSeen ==
    storageStatus = [isOk |-> FALSE, message |-> "Storage low! Model 4 kB > 4 MB free"]

(* ------------------------------- C19 ----------------------------------- *)
\* C19: an aborted session calls no oracle: its count of hasEnoughSpace
\* calls stays, and a call of checkStorage of that session that resumes
\* after hasEnoughSpace returns instead of calling getFreeDiskStorage.
NoOracleCallAfterTeardown ==
    [][ /\ \A s \in aborted : enoughCalls'[s] = enoughCalls[s]
        /\ \A c \in inflight :
             (c.sess \in aborted /\ c \notin inflight') =>
                 /\ Finishes(c)
                 /\ \A d \in inflight' : d \in inflight ]_vars

\* hasEnoughSpace answered "insufficient" to a check of an aborted session,
\* which returned without calling getFreeDiskStorage.
InsufficientAfterTeardownDropped ==
    /\ lastDone.stale
    /\ lastDone.answer = "notEnough"
    /\ lastDone.freeCalls = 0
    /\ lastDone.outcome = "return"

(* ------------------------------- C12 ----------------------------------- *)
\* C12: when sendButtonVisibilityMode is not given, the send button shows
\* exactly when a user is present and the trimmed value is not empty, as in
\* 'editing' mode.
DefaultsToEditing ==
    sendButtonVisibilityMode = "undefined" =>
        (SendButtonVisible <=> (user /\ trim(value) # << >>))

(* ------------------------------- C17 ----------------------------------- *)
\* C17: onSendPress is called only by a press made while the trimmed value
\* is not empty, with {text: the trimmed value, type: 'text'}, and the
\* tracked text is then ''; no message ever sent is empty or untrimmed.
SendsTrimmedNonEmpty ==
    [][ /\ sent' # sent =>
             /\ trim(value) # << >>
             /\ sent' = Append(sent, [text |-> trim(value), type |-> "text"])
             /\ text' = << >>
             /\ valueProp' = valueProp
        /\ \A i \in 1..Len(sent') :
             /\ sent'[i].type = "text"
             /\ sent'[i].text # << >>
             /\ ~IsWhitespace(sent'[i].text[1])
             /\ ~IsWhitespace(sent'[i].text[Len(sent'[i].text)]) ]_vars

\* In 'always' mode a value with a leading blank was sent trimmed, and the
\* tracked text was reset.
TrimmedMessageSent ==
    /\ sendButtonVisibilityMode = "always"
    /\ valueProp = << " ", "a" >>
    /\ Len(sent) = 1
    /\ sent[1] = [text |-> << "a" >>, type |-> "text"]
    /\ text = << >>

(* ------------------------------- C13 ----------------------------------- *)
\* C13: pressing the delete button of a card opens the dialog and neither
\* calls removeResult nor changes the results; removeResult is called only
\* by the dialog's 'Delete', with the timestamp of the card whose button
\* was pressed, and that result leaves the list; a dialog closed without
\* that call ('Cancel') leaves the results as they were.
DeleteNeedsConfirmation ==
    [][ /\ (dialog = "none" /\ dialog' = "delete") =>
             /\ removeResultCalls' = removeResultCalls
             /\ results' = results
        /\ removeResultCalls' # removeResultCalls =>
             /\ dialog = "delete"
             /\ dialog' = "none"
             /\ pressedCard \in results
             /\ removeResultCalls' = Append(removeResultCalls, pressedCard.timestamp)
             /\ results' = results \ {pressedCard}
        /\ (dialog = "delete" /\ dialog' = "none"
              /\ removeResultCalls' = removeResultCalls) =>
             results' = results ]_vars

\* One result was deleted after confirmation.
ResultDeletedAfterConfirm ==
    /\ dialog = "none"
    /\ Len(removeResultCalls) = 1
    /\ removeResultCalls[1] = pressedCard.timestamp
    /\ pressedCard \notin results
    /\ results # {}

(* ------------------------------- C14 ----------------------------------- *)
\* C14: pressing the clear-all button opens the dialog and changes nothing
\* else; clearResults is called only by the dialog's confirm button and
\* leaves the list empty; the dialog closed otherwise (cancel) leaves every
\* result in place.
ClearAllNeedsConfirmation ==
    [][ /\ (dialog = "none" /\ dialog' = "clearAll") =>
             /\ clearResultsCalls' = clearResultsCalls
             /\ results' = results
        /\ clearResultsCalls' # clearResultsCalls =>
             /\ dialog = "clearAll"
             /\ dialog' = "none"
             /\ clearResultsCalls' = clearResultsCalls + 1
             /\ results' = {}
        /\ (dialog = "clearAll" /\ dialog' = "none"
              /\ clearResultsCalls' = clearResultsCalls) =>
             results' = results ]_vars

\* All results were cleared after confirmation.
ResultsClearedAfterConfirm ==
    /\ dialog = "none"
    /\ clearResultsCalls = 1
    /\ results = {}
    /\ removeResultCalls = << >>

(* ------------------------------- C20 ----------------------------------- *)
\* C20: the formatted duration is '<ms>ms' below 1000 ms, '<s>s' with
\* s = floor(ms/1000) from 1000 ms up to 60000 ms, and '<m>m <r>s' from
\* 60000 ms on, with m = floor(floor(ms/1000)/60) >= 1, 0 <= r <= 59 and
\* 60*m + r = floor(ms/1000).
DurationFormat ==
    formatted # "" =>
        LET s == ms \div 1000
            m == s \div 60
            r == s - 60 * m
        IN  /\ ms < 1000 => formatted = ToString(ms) \o "ms"
            /\ (1000 <= ms /\ ms < 60000) => formatted = ToString(s) \o "s"
            /\ ms >= 60000 =>
                 /\ m >= 1
                 /\ r \in 0..59
                 /\ formatted = ToString(m) \o "m " \o ToString(r) \o "s"

\* A duration of one minute and one second was formatted.
MinutesAndSecondsFormatted ==
    /\ ms = 61000
    /\ formatted = "1m 1s"
====
